---- MODULE Spec2Model ----
(***************************************************************************)
(* A state-machine model of server.js, the Connect Four session server:    *)
(* the four process-wide tables, one action per socket event handler, the  *)
(* two setTimeout callbacks and the two setInterval sweeps.                *)
(***************************************************************************)
EXTENDS Integers, Sequences, FiniteSets, TLC

\* ---------------------------------------------------------------- bounds
\* Socket ids that ever connect.
MaxConns == 2
\* Game ids generateGameId ever hands out (createGame and acceptRematch).
MaxGames == 2
\* makeMove is offered the columns -1..MaxCol, 1.5 and 7.
MaxCol == 1
\* Timeouts that may be pending at once.
MaxTimers == 1
\* Games in the registry at once that createGame still adds to.
MaxLive == 1
\* Moves accepted in one run, counted from its initial state.
MaxMoves == 2

\* ------------------------------------------------------ program constants
Rows == 6
Cols == 7
BroadcastDelay == 500
GraceDelay == 5000
\* The rematch sweep: every SweepEvery ms it drops the entries older than
\* RematchExpiry ms.
RematchExpiry == 60000
SweepEvery == 30000

\* The number 1.5 as a makeMove column: `col < 0 || col > 6` lets it through,
\* and as a key of a row array it names the property "1.5", not a cell.
Frac == 15

Conns == 1..MaxConns
GameIds == 1..MaxGames
ColInputs == ((0 - 1)..MaxCol) \cup {Frac, Cols}
\* The keys a row array can hold here: its seven cells and the property "1.5".
RowKeys == (0..(Cols - 1)) \cup {Frac}
Colors == {"red", "yellow"}
\* JavaScript null (an empty seat, no winner yet).
Null == "null"
NoConn == 0

VARIABLES
    sockets,           \* io.sockets.sockets: the ids of the connected sockets
    games,             \* const games = {}
    playerStats,       \* const playerStats = {}
    pendingRematches,  \* const pendingRematches = {}
    timers,            \* pending setTimeout callbacks, in scheduling order
    issued,            \* how many ids generateGameId has handed out
    accepted,          \* how many moves makeMove has accepted in this run
    sent,              \* what the last handler or callback emitted
    probe              \* a call of checkWin on its own: its arguments and result

vars == <<sockets, games, playerStats, pendingRematches, timers, issued,
          accepted, sent, probe>>

\* ------------------------------------------------------------ table helpers
Put(f, k, v) == [x \in DOMAIN f \cup {k} |-> IF x = k THEN v ELSE f[x]]
Del(f, k) == [x \in DOMAIN f \ {k} |-> f[x]]
Has(f, k) == k \in DOMAIN f
EmptyTable == [x \in {} |-> 0]

\* ----------------------------------------------------------- board engine
\* A row is an array of seven "" cells; a key it does not hold reads
\* undefined, which the code treats as it treats "" (falsy, never === player),
\* so the property "1.5" starts as "".
emptyBoard == [r \in 0..(Rows - 1) |-> [c \in RowKeys |-> ""]]

\* r >= 0 && r < 6 && c >= 0 && c < 7, then board[r][c] is read: 1.5 passes
\* the test; 0.5 and 2.5 (Frac - 1, Frac + 1) pass it and read undefined.
InBoard(r, c) == r >= 0 /\ r < Rows /\ ((c >= 0 /\ c < Cols) \/ c = Frac)

Dirs == << << <<0, 1>>, <<0, 0 - 1>> >>,
           << <<1, 0>>, <<0 - 1, 0>> >>,
           << <<1, 1>>, <<0 - 1, 0 - 1>> >>,
           << <<1, 0 - 1>>, <<0 - 1, 1>> >> >>

\* The while loop of checkWin and getWinningCells: the cells met walking from
\* (r, c) by (dx, dy) while they are on the board and hold player.
RECURSIVE Walk(_, _, _, _, _, _)
Walk(board, r, c, dx, dy, player) ==
    IF InBoard(r, c) /\ board[r][c] = player
    THEN <<<<r, c>>>> \o Walk(board, r + dx, c + dy, dx, dy, player)
    ELSE <<>>

\* cells of getWinningCells for one axis: the placed cell, then both walks.
AxisCells(d, row, col, board, player) ==
    <<<<row, col>>>>
      \o Walk(board, row + Dirs[d][1][1], col + Dirs[d][1][2],
              Dirs[d][1][1], Dirs[d][1][2], player)
      \o Walk(board, row + Dirs[d][2][1], col + Dirs[d][2][2],
              Dirs[d][2][1], Dirs[d][2][2], player)

WinLength == 4

\* checkWin with `count > 4` for `count >= 4`: what C8 must tell from it.
checkWinFive(row, col, board, player) ==
    \E d \in 1..Len(Dirs) : Len(AxisCells(d, row, col, board, player)) > WinLength

checkWin(row, col, board, player) ==
    \E d \in 1..Len(Dirs) : Len(AxisCells(d, row, col, board, player)) >= WinLength

Sign(x) == IF x > 0 THEN 1 ELSE IF x < 0 THEN 0 - 1 ELSE 0

getWinningCells(row, col, board, player) ==
    LET hits == {d \in 1..Len(Dirs) :
                    Len(AxisCells(d, row, col, board, player)) >= WinLength}
    IN  IF hits = {} THEN <<>>
        ELSE LET d == CHOOSE x \in hits : \A y \in hits : x <= y
                 cells == AxisCells(d, row, col, board, player)
                 firstCell == cells[1]
                 lastCell == cells[Len(cells)]
                 dx == Sign(lastCell[1] - firstCell[1])
                 dy == Sign(lastCell[2] - firstCell[2])
             IN  [i \in 1..WinLength |->
                    <<firstCell[1] + dx * (i - 1), firstCell[2] + dy * (i - 1)>>]

\* board[0].every(...) visits the indices 0..6 only.
isBoardFull(board) == \A c \in 0..(Cols - 1) : board[0][c] # ""

\* The drop loop of makeMove: the lowest empty row of the column, or -1.
DropRow(board, col) ==
    LET free == {r \in 0..(Rows - 1) : board[r][col] = ""}
    IN  IF free = {} THEN 0 - 1 ELSE CHOOSE r \in free : \A q \in free : q <= r

\* ------------------------------------------------------------------ stats
\* initializePlayerStats without `if (!playerStats[gameId])`: what C10 must
\* tell from it.
initializePlayerStatsAfresh(stats, gameId, redPlayerId, yellowPlayerId) ==
    Put(stats, gameId,
        [seriesId |-> gameId,
         red |-> [id |-> redPlayerId, wins |-> 0],
         yellow |-> [id |-> yellowPlayerId, wins |-> 0],
         gamesPlayed |-> 0])

initializePlayerStats(stats, gameId, redPlayerId, yellowPlayerId) ==
    IF Has(stats, gameId) THEN stats
    ELSE Put(stats, gameId,
             [seriesId |-> gameId,
              red |-> [id |-> redPlayerId, wins |-> 0],
              yellow |-> [id |-> yellowPlayerId, wins |-> 0],
              gamesPlayed |-> 0])

updatePlayerStats(stats, gameId, winner) ==
    IF ~Has(stats, gameId) THEN stats
    ELSE LET s == stats[gameId]
             t == [s EXCEPT !.gamesPlayed = @ + 1]
         IN  Put(stats, gameId,
                 IF winner = "red" THEN [t EXCEPT !.red.wins = @ + 1]
                 ELSE IF winner = "yellow" THEN [t EXCEPT !.yellow.wins = @ + 1]
                 ELSE t)

\* --------------------------------------------------------------- messages
\* socket.emit: to the socket whose event is being handled.
ToSender == [kind |-> "sender", id |-> 0]
\* io.to(socketId) and socket.to(socketId).
ToSocket(c) == [kind |-> "socket", id |-> c]
ToRoom(g) == [kind |-> "room", id |-> g]
Msg(type, to, info) == [type |-> type, to |-> to, info |-> info]
ErrorMsg(text) == Msg("errorMsg", ToSender, text)

\* ----------------------------------------------------------------- timers
\* orig is game.originalGameId, set once when the game object is made.
BroadcastTimer(g, orig) ==
    [kind |-> "broadcast", gameId |-> g, orig |-> orig, winner |-> "live"]
DeleteTimer(g) == [kind |-> "delete", gameId |-> g, orig |-> g, winner |-> "live"]
Delay(t) == IF t.kind = "broadcast" THEN BroadcastDelay ELSE GraceDelay

\* The delayed broadcast closes over the game object, not its id: once the
\* game leaves the registry the object keeps the winner it had then.
Orphan(ts, g, w) ==
    [i \in 1..Len(ts) |->
        IF ts[i].kind = "broadcast" /\ ts[i].gameId = g /\ ts[i].winner = "live"
        THEN [ts[i] EXCEPT !.winner = w] ELSE ts[i]]

\* delete games[gameId], as seen by the pending callbacks.
DeleteGame(gs, ts, g) == IF Has(gs, g) THEN Orphan(ts, g, gs[g].winner) ELSE ts

RemoveAt(s, i) == [k \in 1..(Len(s) - 1) |-> IF k < i THEN s[k] ELSE s[k + 1]]

\* A timeout may run once every timeout set before it with a delay no longer
\* than its own has run: how much time passes between two events is the
\* environment's choice, the order of the deadlines is not.
Fireable(ts, i) == \A j \in 1..(i - 1) : Delay(ts[j]) > Delay(ts[i])

\* ------------------------------------------------------- pending rematches
\* pendingRematches is held oldest timestamp first; gameId is the key.  The
\* sweep reads an entry's timestamp only as `now - timestamp`, its age, and
\* only at its own runs: ticks is how many runs of the sweep the entry has
\* been through.  The run number n after the entry was written finds it
\* between (n - 1) * SweepEvery and n * SweepEvery ms old.
PendingIndex(ps, g) == {i \in 1..Len(ps) : ps[i].gameId = g}
HasPending(ps, g) == PendingIndex(ps, g) # {}
GetPending(ps, g) == ps[CHOOSE i \in PendingIndex(ps, g) : TRUE]
DelPending(ps, g) == SelectSeq(ps, LAMBDA p : p.gameId # g)
\* pendingRematches[gameId] = {..., timestamp: Date.now()}
SetPending(ps, g, requester, opponent) ==
    Append(DelPending(ps, g),
           [gameId |-> g, requester |-> requester, opponent |-> opponent,
            ticks |-> 0])

\* ------------------------------------------------------------------ games
NewGame(gameId, red, yellow, status, originalGameId, gameNumber) ==
    [board |-> emptyBoard,
     currentPlayer |-> "red",
     red |-> red,
     yellow |-> yellow,
     winner |-> Null,
     winningCells |-> <<>>,
     status |-> status,
     moves |-> 0,
     originalGameId |-> originalGameId,
     gameNumber |-> gameNumber]

generateGameId == issued + 1

\* No call of checkWin is being looked at on its own.
NoProbe == [board |-> emptyBoard, row |-> 0, col |-> 0, player |-> "", result |-> "none"]

\* The state once the sockets of the run have connected: the connection
\* handler registers the event handlers and changes no table.
Init ==
    /\ sockets = Conns
    /\ games = EmptyTable
    /\ playerStats = EmptyTable
    /\ pendingRematches = <<>>
    /\ timers = <<>>
    /\ issued = 0
    /\ accepted = 0
    /\ sent = <<>>
    /\ probe = NoProbe

\* socket.on("createGame", ...)
CreateGame(c) ==
    /\ c \in sockets
    /\ issued < MaxGames
    /\ Cardinality(DOMAIN games) < MaxLive
    /\ LET gameId == generateGameId
       IN  /\ games' = Put(games, gameId,
                           NewGame(gameId, c, NoConn, "waiting", gameId, 1))
           /\ issued' = gameId
           /\ sent' = << Msg("gameCreated", ToSender, ""),
                         Msg("gameUpdate", ToRoom(gameId), "") >>
    /\ UNCHANGED <<sockets, playerStats, pendingRematches, timers, accepted, probe>>

\* socket.on("joinGame", ...)
JoinGame(c, gameId) ==
    /\ c \in sockets
    /\ IF ~Has(games, gameId)
       THEN /\ sent' = <<ErrorMsg("Game not found. Please check the Game ID.")>>
            /\ UNCHANGED <<games, playerStats>>
       ELSE IF games[gameId].yellow # NoConn
       THEN /\ sent' = <<ErrorMsg("Game is already full. Please join another game.")>>
            /\ UNCHANGED <<games, playerStats>>
       ELSE LET game == [games[gameId] EXCEPT !.yellow = c, !.status = "playing"]
            IN  /\ games' = Put(games, gameId, game)
                /\ playerStats' = initializePlayerStats(playerStats,
                                      game.originalGameId, game.red, game.yellow)
                /\ sent' = << Msg("gameJoined", ToSender, ""),
                              Msg("playerJoined", ToRoom(gameId), ""),
                              Msg("gameUpdate", ToRoom(gameId), "") >>
                            \o (IF Has(playerStats', game.originalGameId)
                                THEN <<Msg("statsUpdate", ToRoom(gameId), "")>>
                                ELSE <<>>)
    /\ UNCHANGED <<sockets, pendingRematches, timers, issued, accepted, probe>>

Opposite(color) == IF color = "red" THEN "yellow" ELSE "red"

\* col < 0 || col > 6, on the number the client sent.
InvalidColumn(col) == col # Frac /\ (col < 0 \/ col > Cols - 1)

\* The column checks of makeMove, lines 237-253.
ColumnError(gameId, col) ==
    IF InvalidColumn(col) THEN "Invalid column."
    ELSE IF DropRow(games[gameId].board, col) = 0 - 1
         THEN "Column is full. Choose another column."
    ELSE ""

\* makeMove without the turn check of lines 227-230: what C4 must tell
\* from it.
MoveErrorAnyTurn(gameId, col, color) ==
    IF ~Has(games, gameId) THEN "Game not found."
    ELSE IF games[gameId].winner # Null THEN "Game has already ended."
    ELSE IF games[gameId].red = NoConn \/ games[gameId].yellow = NoConn
         THEN "Waiting for opponent to join."
    ELSE ColumnError(gameId, col)

\* makeMove without the winner check of lines 222-225: what C6 must tell
\* from it.
MoveErrorAfterEnd(gameId, col, color) ==
    IF ~Has(games, gameId) THEN "Game not found."
    ELSE IF games[gameId].currentPlayer # color THEN "It's not your turn."
    ELSE IF games[gameId].red = NoConn \/ games[gameId].yellow = NoConn
         THEN "Waiting for opponent to join."
    ELSE ColumnError(gameId, col)

\* Lines 215-253 of makeMove: the message of the first check that fails, or
\* "" when the move goes through.
MoveError(gameId, col, color) ==
    IF ~Has(games, gameId) THEN "Game not found."
    ELSE IF games[gameId].winner # Null THEN "Game has already ended."
    ELSE IF games[gameId].currentPlayer # color THEN "It's not your turn."
    ELSE IF games[gameId].red = NoConn \/ games[gameId].yellow = NoConn
         THEN "Waiting for opponent to join."
    ELSE ColumnError(gameId, col)

\* makeMove without `game.status = "finished"` in its draw branch (line
\* 268): what C9 must tell from it.
PlaceDiscDrawOpen(game, row, col, color) ==
    LET board == [game.board EXCEPT ![row][col] = color]
        placed == [game EXCEPT !.board = board, !.moves = @ + 1]
    IN  IF checkWin(row, col, board, color)
        THEN [placed EXCEPT !.winner = color,
                            !.winningCells = getWinningCells(row, col, board, color),
                            !.status = "finished"]
        ELSE IF isBoardFull(board)
        THEN [placed EXCEPT !.winner = "draw"]
        ELSE [placed EXCEPT !.currentPlayer = Opposite(color)]

\* Lines 255-271 of makeMove: the game after the disc is placed.
PlaceDisc(game, row, col, color) ==
    LET board == [game.board EXCEPT ![row][col] = color]
        placed == [game EXCEPT !.board = board, !.moves = @ + 1]
    IN  IF checkWin(row, col, board, color)
        THEN [placed EXCEPT !.winner = color,
                            !.winningCells = getWinningCells(row, col, board, color),
                            !.status = "finished"]
        ELSE IF isBoardFull(board)
        THEN [placed EXCEPT !.winner = "draw", !.status = "finished"]
        ELSE [placed EXCEPT !.currentPlayer = Opposite(color)]

\* The body of the makeMove handler, which does not read socket.id.
MoveStep(gameId, col, color) ==
    /\ IF MoveError(gameId, col, color) # ""
       THEN /\ sent' = <<ErrorMsg(MoveError(gameId, col, color))>>
            /\ UNCHANGED <<games, playerStats, timers, accepted>>
       ELSE LET row == DropRow(games[gameId].board, col)
                game == PlaceDisc(games[gameId], row, col, color)
            IN  /\ Len(timers) < MaxTimers
                /\ accepted < MaxMoves
                /\ accepted' = accepted + 1
                /\ games' = Put(games, gameId, game)
                /\ playerStats' =
                       IF game.winner = color
                       THEN updatePlayerStats(playerStats, game.originalGameId, color)
                       ELSE playerStats
                /\ timers' = Append(timers, BroadcastTimer(gameId, game.originalGameId))
                /\ sent' = <<Msg("moveAnimation", ToRoom(gameId), color)>>
    /\ UNCHANGED <<sockets, pendingRematches, issued, probe>>

\* socket.on("makeMove", ...)
MakeMove(c, gameId, col, color) == c \in sockets /\ MoveStep(gameId, col, color)

\* socket.on("requestRematch", ...)
RequestRematch(c, gameId) ==
    /\ c \in sockets
    /\ IF ~Has(games, gameId)
          \/ games[gameId].red = NoConn \/ games[gameId].yellow = NoConn
       THEN /\ sent' = <<ErrorMsg("Cannot request rematch.")>>
            /\ UNCHANGED pendingRematches
       ELSE LET game == games[gameId]
                opponentId == IF game.red = c THEN game.yellow ELSE game.red
            IN  /\ pendingRematches' = SetPending(pendingRematches, gameId, c, opponentId)
                /\ sent' = << Msg("rematchRequested", ToSocket(opponentId), ""),
                              Msg("rematchRequestSent", ToSender, "") >>
    /\ UNCHANGED <<sockets, games, playerStats, timers, issued, accepted, probe>>

\* acceptRematch without `pendingRematch.opponent !== socket.id` (line 320):
\* what C12 must tell from it.
AcceptErrorAnyone(c, gameId) ==
    IF ~HasPending(pendingRematches, gameId) THEN "Invalid rematch acceptance."
    ELSE IF ~Has(games, gameId) THEN "Game not found."
    ELSE IF ~Has(playerStats, games[gameId].originalGameId)
    THEN "Game stats not found."
    ELSE ""

\* Lines 319-337 of acceptRematch: the message of the first check that fails.
AcceptError(c, gameId) ==
    IF ~HasPending(pendingRematches, gameId)
       \/ GetPending(pendingRematches, gameId).opponent # c
    THEN "Invalid rematch acceptance."
    ELSE IF ~Has(games, gameId) THEN "Game not found."
    ELSE IF ~Has(playerStats, games[gameId].originalGameId)
    THEN "Game stats not found."
    ELSE ""

\* acceptRematch without `delete pendingRematches[gameId]` (line 371): what
\* C11 must tell from it.
AcceptRematchKeepPending(c, gameId) ==
    /\ c \in sockets
    /\ IF AcceptError(c, gameId) # ""
       THEN /\ sent' = <<ErrorMsg(AcceptError(c, gameId))>>
            /\ UNCHANGED <<games, timers, issued>>
       ELSE LET game == games[gameId]
                stats == playerStats[game.originalGameId]
                newGameId == generateGameId
            IN  /\ issued < MaxGames
                /\ games' = Del(Put(games, newGameId,
                                    NewGame(newGameId, game.red, game.yellow, "playing",
                                            game.originalGameId, stats.gamesPlayed + 1)),
                                gameId)
                /\ timers' = DeleteGame(games, timers, gameId)
                /\ issued' = newGameId
                /\ sent' = << Msg("rematchStarted", ToRoom(newGameId), ""),
                              Msg("gameUpdate", ToRoom(newGameId), ""),
                              Msg("statsUpdate", ToRoom(newGameId), "") >>
    /\ UNCHANGED <<sockets, playerStats, pendingRematches, accepted, probe>>

\* socket.on("acceptRematch", ...)
AcceptRematch(c, gameId) ==
    /\ c \in sockets
    /\ IF AcceptError(c, gameId) # ""
       THEN /\ sent' = <<ErrorMsg(AcceptError(c, gameId))>>
            /\ UNCHANGED <<games, pendingRematches, timers, issued>>
       ELSE LET game == games[gameId]
                stats == playerStats[game.originalGameId]
                newGameId == generateGameId
            IN  /\ issued < MaxGames
                /\ games' = Del(Put(games, newGameId,
                                    NewGame(newGameId, game.red, game.yellow, "playing",
                                            game.originalGameId, stats.gamesPlayed + 1)),
                                gameId)
                /\ pendingRematches' = DelPending(pendingRematches, gameId)
                /\ timers' = DeleteGame(games, timers, gameId)
                /\ issued' = newGameId
                /\ sent' = << Msg("rematchStarted", ToRoom(newGameId), ""),
                              Msg("gameUpdate", ToRoom(newGameId), ""),
                              Msg("statsUpdate", ToRoom(newGameId), "") >>
    /\ UNCHANGED <<sockets, playerStats, accepted, probe>>

\* socket.on("declineRematch", ...)
DeclineRematch(c, gameId) ==
    /\ c \in sockets
    /\ IF HasPending(pendingRematches, gameId)
       THEN /\ sent' = <<Msg("rematchDeclined",
                             ToSocket(GetPending(pendingRematches, gameId).requester), "")>>
            /\ pendingRematches' = DelPending(pendingRematches, gameId)
       ELSE /\ sent' = <<>>
            /\ UNCHANGED pendingRematches
    /\ UNCHANGED <<sockets, games, playerStats, timers, issued, accepted, probe>>

\* Lines 408-426 and 458-474: the seat of socket c is emptied and the other
\* colour wins; a game c has no seat in is left as it is.
Vacate(game, c) ==
    IF game.red = c
    THEN [game EXCEPT !.red = NoConn, !.status = "abandoned", !.winner = "yellow"]
    ELSE IF game.yellow = c
    THEN [game EXCEPT !.yellow = NoConn, !.status = "abandoned", !.winner = "red"]
    ELSE game

\* The opponentLeft of the same lines, sent to the seat that is still taken.
VacateMsgs(game, c) ==
    IF game.red = c
    THEN (IF game.yellow # NoConn
          THEN <<Msg("opponentLeft", ToSocket(game.yellow), "")>> ELSE <<>>)
    ELSE IF game.yellow = c
    THEN (IF game.red # NoConn
          THEN <<Msg("opponentLeft", ToSocket(game.red), "")>> ELSE <<>>)
    ELSE <<>>

\* socket.on("leaveGame", ...)
LeaveGame(c, gameId) ==
    /\ c \in sockets
    /\ IF Has(games, gameId)
       THEN /\ Len(timers) < MaxTimers
            /\ games' = Put(games, gameId, Vacate(games[gameId], c))
            /\ sent' = VacateMsgs(games[gameId], c)
            /\ pendingRematches' = DelPending(pendingRematches, gameId)
            /\ timers' = Append(timers, DeleteTimer(gameId))
       ELSE /\ sent' = <<>>
            /\ UNCHANGED <<games, pendingRematches, timers>>
    /\ UNCHANGED <<sockets, playerStats, issued, accepted, probe>>

Seated(c) == {g \in DOMAIN games : games[g].red = c \/ games[g].yellow = c}

\* The ids of a set, lowest first: Object.entries lists the games in the
\* order they were made, which is the order of their ids here.
RECURSIVE Ascending(_)
Ascending(S) ==
    IF S = {} THEN <<>>
    ELSE LET m == CHOOSE x \in S : \A y \in S : x <= y
         IN  <<m>> \o Ascending(S \ {m})

RECURSIVE Flatten(_)
Flatten(ss) == IF ss = <<>> THEN <<>> ELSE Head(ss) \o Flatten(Tail(ss))

\* socket.on("disconnect", ...)
Disconnect(c) ==
    /\ c \in sockets
    /\ LET hit == Ascending(Seated(c))
       IN  /\ Len(timers) + Len(hit) <= MaxTimers
           /\ games' = [g \in DOMAIN games |-> Vacate(games[g], c)]
           /\ sent' = Flatten([i \in 1..Len(hit) |-> VacateMsgs(games[hit[i]], c)])
           /\ pendingRematches' =
                  SelectSeq(pendingRematches, LAMBDA p : p.gameId \notin Seated(c))
           /\ timers' = timers \o [i \in 1..Len(hit) |-> DeleteTimer(hit[i])]
    /\ sockets' = sockets \ {c}
    /\ UNCHANGED <<playerStats, issued, accepted, probe>>

\* The setTimeout callbacks of makeMove (lines 279-288) and of leaveGame and
\* disconnect (lines 436-441, 482-487).
FireTimer(i) ==
    /\ i \in 1..Len(timers)
    /\ Fireable(timers, i)
    /\ LET t == timers[i]
           rest == RemoveAt(timers, i)
       IN  IF t.kind = "delete"
           THEN /\ games' = Del(games, t.gameId)
                /\ timers' = DeleteGame(games, rest, t.gameId)
                /\ sent' = <<>>
           ELSE LET winner == IF t.winner = "live" THEN games[t.gameId].winner
                              ELSE t.winner
                IN  /\ sent' = <<Msg("gameUpdate", ToRoom(t.gameId), "")>>
                               \o (IF winner # Null /\ Has(playerStats, t.orig)
                                   THEN <<Msg("statsUpdate", ToRoom(t.gameId), "")>>
                                   ELSE <<>>)
                    /\ timers' = rest
                    /\ UNCHANGED games
    /\ UNCHANGED <<sockets, playerStats, pendingRematches, issued, accepted, probe>>

\* The 30 s interval: the entries older than 60 s go.  How long ago each was
\* written is the environment's choice; that an older one is older is not.
SweepRematches(k) ==
    /\ k \in 1..Len(pendingRematches)
    /\ pendingRematches' = SubSeq(pendingRematches, k + 1, Len(pendingRematches))
    /\ sent' = <<>>
    /\ UNCHANGED <<sockets, games, playerStats, timers, issued, accepted, probe>>

\* The 5 min interval: the games made more than an hour ago go, which are
\* the games with the lowest ids.
SweepGames(k) ==
    /\ k \in DOMAIN games
    /\ LET old == {g \in DOMAIN games : g <= k}
       IN  /\ games' = [g \in DOMAIN games \ old |-> games[g]]
           /\ timers' = [i \in 1..Len(timers) |->
                            IF timers[i].kind = "broadcast" /\ timers[i].gameId \in old
                               /\ timers[i].winner = "live"
                            THEN [timers[i] EXCEPT !.winner = games[timers[i].gameId].winner]
                            ELSE timers[i]]
    /\ sent' = <<>>
    /\ UNCHANGED <<sockets, playerStats, pendingRematches, issued, accepted, probe>>

Next ==
    \/ \E c \in Conns : CreateGame(c)
    \/ \E c \in Conns, g \in GameIds : JoinGame(c, g)
    \/ \E c \in Conns, g \in GameIds, col \in ColInputs, color \in Colors :
          MakeMove(c, g, col, color)
    \/ \E c \in Conns, g \in GameIds : RequestRematch(c, g)
    \/ \E c \in Conns, g \in GameIds : AcceptRematch(c, g)
    \/ \E c \in Conns, g \in GameIds : DeclineRematch(c, g)
    \/ \E c \in Conns, g \in GameIds : LeaveGame(c, g)
    \/ \E c \in Conns : Disconnect(c)
    \/ \E i \in 1..MaxTimers : FireTimer(i)
    \/ \E k \in 1..MaxGames : SweepRematches(k)
    \/ \E k \in GameIds : SweepGames(k)

Spec == Init /\ [][Next]_vars

\* ------------------------------------------------- games already under way
\* The game a run of accepted makeMove events leaves: cols are the columns
\* sent, each by the colour whose turn it is.
RECURSIVE Replay(_, _)
Replay(game, cols) ==
    IF cols = <<>> THEN game
    ELSE Replay(PlaceDisc(game, DropRow(game.board, Head(cols)), Head(cols),
                          game.currentPlayer),
                Tail(cols))

RECURSIVE Times(_, _)
Times(s, n) == IF n = 0 THEN <<>> ELSE s \o Times(s, n - 1)

\* Red has three in column 0 and yellow three in column 1; red to move.
VerticalScript == <<0, 1, 0, 1, 0, 1>>
\* Red holds (5,0), (5,2), (5,3) and yellow the cells above them; red to move,
\* and column 1 completes the bottom row from inside the run.
MiddleScript == <<0, 0, 2, 2, 3, 3>>
\* Red has sent column 1.5 three times and yellow column 0; red to move.
FracScript == <<Frac, 0, Frac, 0, Frac, 0>>

\* Game 1 when socket 2 has joined socket 1 in it.
StartGame == NewGame(1, 1, 2, "playing", 1, 1)

\* Forty moves with no four in a row, replayed twelve, twelve, twelve and
\* four at a time: every column is full but column 0, whose two top cells
\* are left; red to move.
DrawStage1 == Replay(StartGame, Times(<<4, 2, 2, 4>>, 3))
DrawStage2 == Replay(DrawStage1, Times(<<5, 3, 3, 5>>, 3))
DrawStage3 == Replay(DrawStage2, Times(<<6>>, 6) \o Times(<<1>>, 6))
DrawGame == Replay(DrawStage3, Times(<<0>>, 4))

MidGames ==
    {Replay(StartGame, VerticalScript), Replay(StartGame, MiddleScript),
     Replay(StartGame, FracScript), DrawGame}

\* The state after socket 1 created game 1, socket 2 joined it, the moves of
\* one of the scripts were made and each delayed broadcast ran.
InitMid ==
    /\ sockets = Conns
    /\ \E game \in MidGames : games = Put(EmptyTable, 1, game)
    /\ playerStats = initializePlayerStats(EmptyTable, 1, 1, 2)
    /\ pendingRematches = <<>>
    /\ timers = <<>>
    /\ issued = 1
    /\ accepted = 0
    /\ sent = <<Msg("gameUpdate", ToRoom(1), "")>>
    /\ probe = NoProbe

SpecMid == InitMid /\ [][Next]_vars

\* ------------------------------------------------- checkWin on its own
\* How far from the just-played cell a probed line is laid out, each way.
MaxReach == 3
\* The just-played cells probed: corners, edges and inside.
ProbeRows == {0, 2, 5}
ProbeCols == {0, 3, 6}
Symbols == {"", "red", "yellow"}

\* A board that holds player at (row, col), pat along axis d through that
\* cell (pat[1..MaxReach] going Dirs[d][1], the rest going Dirs[d][2]) and
\* fill everywhere else.
ProbeBoard(row, col, d, pat, fill, player) ==
    [r \in 0..(Rows - 1) |-> [c \in RowKeys |->
        IF c = Frac THEN ""
        ELSE LET dr == r - row
                 dc == c - col
                 k == IF dr # 0 THEN Sign(dr) * dr ELSE Sign(dc) * dc
             IN  IF k = 0 THEN player
                 ELSE IF k > MaxReach THEN fill
                 ELSE IF dr = k * Dirs[d][1][1] /\ dc = k * Dirs[d][1][2]
                      THEN pat[k]
                 ELSE IF dr = k * Dirs[d][2][1] /\ dc = k * Dirs[d][2][2]
                      THEN pat[MaxReach + k]
                 ELSE fill]]

\* Before a call of checkWin: its arguments are chosen, no table is touched.
InitProbe ==
    /\ sockets = Conns
    /\ games = EmptyTable
    /\ playerStats = EmptyTable
    /\ pendingRematches = <<>>
    /\ timers = <<>>
    /\ issued = 0
    /\ accepted = 0
    /\ sent = <<>>
    /\ \E row \in ProbeRows, col \in ProbeCols, d \in 1..Len(Dirs),
          pat \in [1..(2 * MaxReach) -> Symbols], player \in Colors :
        \E fill \in {"", player} :
          probe = [board |-> ProbeBoard(row, col, d, pat, fill, player),
                   row |-> row, col |-> col, player |-> player, result |-> "none"]

\* checkWin(row, col, board, player) is called and its result kept.
Probe ==
    /\ probe.result = "none"
    /\ probe' = [probe EXCEPT !.result =
                    IF checkWin(probe.row, probe.col, probe.board, probe.player)
                    THEN "true" ELSE "false"]
    /\ UNCHANGED <<sockets, games, playerStats, pendingRematches, timers, issued,
                   accepted, sent>>

NextProbe == Probe

SpecProbe == InitProbe /\ [][NextProbe]_vars

\* ------------------------------------------------ the rematch sweep, timed
\* The 30 s interval (lines 495-503), with the age of each entry counted in
\* runs of the sweep: an entry this run is the n-th for is between
\* (n - 1) * SweepEvery and n * SweepEvery ms old, so it is kept when
\* n * SweepEvery <= RematchExpiry and dropped otherwise (RematchExpiry is a
\* multiple of SweepEvery).  A run that finds the table empty does nothing.
\* SweepTickKeeps is the sweep without its `delete`: what C15 must tell from
\* SweepTick.
SweepTickKeeps ==
    /\ pendingRematches # <<>>
    /\ pendingRematches' = [i \in 1..Len(pendingRematches) |->
                               [pendingRematches[i] EXCEPT !.ticks = @ + 1]]
    /\ sent' = <<>>
    /\ UNCHANGED <<sockets, games, playerStats, timers, issued, accepted, probe>>

SweepTick ==
    /\ pendingRematches # <<>>
    /\ pendingRematches' =
           LET seen == [i \in 1..Len(pendingRematches) |->
                           [pendingRematches[i] EXCEPT !.ticks = @ + 1]]
           IN  SelectSeq(seen, LAMBDA p : p.ticks * SweepEvery <= RematchExpiry)
    /\ sent' = <<>>
    /\ UNCHANGED <<sockets, games, playerStats, timers, issued, accepted, probe>>

\* Game 1 once red has won it with a fourth disc in column 0.
WonGame == Replay(StartGame, VerticalScript \o <<0>>)

\* The state after that win and its delayed broadcast.
InitSweep ==
    /\ sockets = Conns
    /\ games = Put(EmptyTable, 1, WonGame)
    /\ playerStats = updatePlayerStats(initializePlayerStats(EmptyTable, 1, 1, 2), 1, "red")
    /\ pendingRematches = <<>>
    /\ timers = <<>>
    /\ issued = 1
    /\ accepted = 0
    /\ sent = <<Msg("gameUpdate", ToRoom(1), ""), Msg("statsUpdate", ToRoom(1), "")>>
    /\ probe = NoProbe

NextSweep ==
    \/ \E c \in Conns, g \in GameIds : JoinGame(c, g)
    \/ \E c \in Conns, g \in GameIds, col \in ColInputs, color \in Colors :
          MakeMove(c, g, col, color)
    \/ \E c \in Conns, g \in GameIds : RequestRematch(c, g)
    \/ \E c \in Conns, g \in GameIds : AcceptRematch(c, g)
    \/ \E c \in Conns, g \in GameIds : DeclineRematch(c, g)
    \/ \E c \in Conns, g \in GameIds : LeaveGame(c, g)
    \/ \E c \in Conns : Disconnect(c)
    \/ \E i \in 1..MaxTimers : FireTimer(i)
    \/ SweepTick

\* setInterval runs the sweep again and again, whatever the clients do.
SpecSweep == InitSweep /\ [][NextSweep]_vars /\ WF_vars(SweepTick)

\* ================================================================ claims
Terminal == {"finished", "abandoned"}
Rank(status) == IF status = "waiting" THEN 0 ELSE IF status = "playing" THEN 1 ELSE 2

\* The games in the registry before and after a step.
Kept == DOMAIN games \cap DOMAIN games'

\* C1: a session's status only moves forward, waiting -> playing ->
\* finished or abandoned: it never goes back from a terminal status and never
\* passes from one terminal status to the other.
C1_StatusMonotone ==
    [][\A g \in Kept :
          /\ Rank(games[g].status) <= Rank(games'[g].status)
          /\ games[g].status \in Terminal => games'[g].status = games[g].status]_vars

\* C2: in every reachable state a session has a winner (red, yellow or draw)
\* exactly when its status is finished or abandoned.
C2_WinnerIffTerminal ==
    \A g \in DOMAIN games :
        (games[g].winner # Null) <=> (games[g].status \in Terminal)

\* The non-empty cells of the 6x7 board.
Discs(board) ==
    Cardinality({rc \in (0..(Rows - 1)) \X (0..(Cols - 1)) : board[rc[1]][rc[2]] # ""})

\* C3: in every reachable state a session's moves counter is the number of
\* non-empty cells of its board.
C3_MovesCountCells ==
    \A g \in DOMAIN games : games[g].moves = Discs(games[g].board)

\* The errors makeMove answers with (lines 218-251).
MoveErrors ==
    {"Game not found.", "Game has already ended.", "It's not your turn.",
     "Waiting for opponent to join.", "Invalid column.",
     "Column is full. Choose another column."}

\* This step answered with one of makeMove's errors.
RejectedMove == sent' # <<>> /\ sent'[1].type = "errorMsg" /\ sent'[1].info \in MoveErrors

\* A makeMove of colour X on session g was accepted in this step.
AcceptedMove(g, X) ==
    /\ accepted' = accepted + 1
    /\ sent' = <<Msg("moveAnimation", ToRoom(g), X)>>

\* C4: a step that answers with one of makeMove's errors leaves every
\* session (board, move count, turn, status, winner) and the series stats as
\* they were; a move is accepted only on a session that exists, has no
\* winner, has both seats taken and has X to move, and puts one disc of X in
\* a cell that was empty; and a makeMove on a session still open whose
\* colour is not the current turn is answered with the not-your-turn error.
C4_RejectedMoveChangesNothing ==
    [][/\ RejectedMove => games' = games /\ playerStats' = playerStats
       /\ \A g \in GameIds, X \in Colors :
             AcceptedMove(g, X) =>
                 /\ Has(games, g)
                 /\ games[g].winner = Null
                 /\ games[g].currentPlayer = X
                 /\ games[g].red # NoConn /\ games[g].yellow # NoConn
                 /\ \E r \in 0..(Rows - 1), c \in RowKeys :
                       /\ games[g].board[r][c] = ""
                       /\ games'[g].board = [games[g].board EXCEPT ![r][c] = X]
       /\ sent' # <<ErrorMsg("It's not your turn.")>> =>
             \A g \in DOMAIN games, col \in ColInputs, color \in Colors :
                 ~(/\ games[g].winner = Null
                   /\ games[g].currentPlayer # color
                   /\ MoveStep(g, col, color))]_vars

\* C4 happens: a game with discs on its board and no winner has just turned
\* a move down as out of turn.
C4_Witness ==
    /\ sent = <<ErrorMsg("It's not your turn.")>>
    /\ \E g \in DOMAIN games : games[g].moves > 0 /\ games[g].winner = Null

Axes == {<<0, 1>>, <<1, 0>>, <<1, 1>>, <<1, 0 - 1>>}

\* Four cells in a line on the 6x7 board, (row, col) one of them, all holding
\* player.
FourThrough(board, row, col, player) ==
    \E a \in Axes, k \in 0..(WinLength - 1) :
        \A i \in 0..(WinLength - 1) :
            LET r == row + (i - k) * a[1]
                c == col + (i - k) * a[2]
            IN  /\ r \in 0..(Rows - 1)
                /\ c \in 0..(Cols - 1)
                /\ board[r][c] = player

HasFour(board, player) ==
    \E r \in 0..(Rows - 1), c \in 0..(Cols - 1) : FourThrough(board, r, c, player)

\* C5: after an accepted move of colour X that neither completes four in a
\* row nor fills the board the turn is the other colour's; after one that
\* does either, the session is finished.
C5_TurnAlternation ==
    [][\A g \in Kept, X \in Colors :
          AcceptedMove(g, X) =>
              IF \/ HasFour(games'[g].board, X)
                 \/ Discs(games'[g].board) = Rows * Cols
              THEN games'[g].status = "finished"
              ELSE games'[g].currentPlayer = Opposite(X)]_vars

\* C6: a session that is finished or abandoned has a winner, and a session
\* that has a winner keeps one and keeps its board, move count and turn in
\* every step, whatever its status is set to: no makeMove on it is accepted.
C6_TerminalFrozen ==
    [][\A g \in Kept :
          /\ games[g].status \in Terminal => games[g].winner # Null
          /\ games[g].winner # Null =>
                 /\ games'[g].board = games[g].board
                 /\ games'[g].moves = games[g].moves
                 /\ games'[g].currentPlayer = games[g].currentPlayer
                 /\ games'[g].winner # Null]_vars

\* C6 happens: a move has just been turned down on a finished or abandoned
\* session that holds discs.
C6_Witness ==
    /\ sent = <<ErrorMsg("Game has already ended.")>>
    /\ \E g \in DOMAIN games : games[g].status \in Terminal /\ games[g].moves > 0

\* Four cells of the 6x7 board, each one step of the same direction from the
\* one before, all holding color.
ValidRun(board, cells, color) ==
    /\ Len(cells) = WinLength
    /\ \A i \in 1..Len(cells) :
          /\ cells[i][1] \in 0..(Rows - 1)
          /\ cells[i][2] \in 0..(Cols - 1)
          /\ board[cells[i][1]][cells[i][2]] = color
    /\ \E a \in Axes, sgn \in {0 - 1, 1} :
          \A i \in 1..(Len(cells) - 1) :
              /\ cells[i + 1][1] = cells[i][1] + sgn * a[1]
              /\ cells[i + 1][2] = cells[i][2] + sgn * a[2]

\* C7: a session a move has won, all of its discs in cells of the board,
\* records as winningCells four cells of the board that hold the winning
\* colour and follow one another along a line.
C7_WinningCellsValid ==
    \A g \in DOMAIN games :
        (/\ games[g].status = "finished"
         /\ games[g].winner \in Colors
         /\ games[g].moves = Discs(games[g].board))
        => ValidRun(games[g].board, games[g].winningCells, games[g].winner)

\* C8: checkWin is true exactly when four cells in a line through the
\* just-played cell, along a row, a column or a diagonal, all hold the
\* player's colour.
C8_CheckWinIffFour ==
    probe.result # "none" =>
        (probe.result = "true"
            <=> FourThrough(probe.board, probe.row, probe.col, probe.player))

\* C8 happens: checkWin said no for (5, 3) on a bottom row that holds the
\* player's colour in columns 0, 1, 3, 4 and 5 and the other colour in
\* column 2.
C8_Witness ==
    /\ probe.result = "false"
    /\ probe.row = 5 /\ probe.col = 3
    /\ \A c \in {0, 1, 4, 5} : probe.board[5][c] = probe.player
    /\ probe.board[5][2] = Opposite(probe.player)

\* C9: an accepted move that puts a disc in the last empty cell and completes
\* no four in a row leaves the session finished with winner draw and the
\* series stats as they were.
C9_DrawOnLastCell ==
    [][\A g \in Kept, X \in Colors :
          (/\ AcceptedMove(g, X)
           /\ Discs(games[g].board) = Rows * Cols - 1
           /\ Discs(games'[g].board) = Rows * Cols
           /\ ~HasFour(games'[g].board, X))
          => /\ games'[g].status = "finished"
             /\ games'[g].winner = "draw"
             /\ playerStats' = playerStats]_vars

\* C9 happens: a session with all 42 cells taken, drawn, its series with no
\* game counted.
C9_Witness ==
    \E g \in DOMAIN games :
        /\ Discs(games[g].board) = Rows * Cols
        /\ games[g].winner = "draw"
        /\ games[g].status = "finished"
        /\ playerStats[games[g].originalGameId].gamesPlayed = 0

Balanced ==
    \A s \in DOMAIN playerStats :
        playerStats[s].gamesPlayed = playerStats[s].red.wins + playerStats[s].yellow.wins

\* A makeMove of colour X on session g was accepted in this step and the
\* session records X as its winner.
Won(g, X) == AcceptedMove(g, X) /\ games'[g].winner = X

\* C10: a move recorded as won adds one to the winner's wins and to the
\* gamesPlayed of the session's series and changes no other counter; no
\* other step changes or removes a series's counters, a new series starts at
\* zero, and gamesPlayed = red.wins + yellow.wins in every state.
C10_SeriesCounters ==
    /\ []Balanced
    /\ [][/\ \A g \in Kept, X \in Colors :
                Won(g, X) =>
                    /\ Has(playerStats, games[g].originalGameId)
                    /\ playerStats' =
                          [playerStats EXCEPT ![games[g].originalGameId] =
                              [@ EXCEPT !.gamesPlayed = @ + 1, ![X].wins = @ + 1]]
          /\ (\A g \in Kept, X \in Colors : ~Won(g, X)) =>
                \A s \in DOMAIN playerStats :
                    Has(playerStats', s) /\ playerStats'[s] = playerStats[s]
          /\ \A s \in DOMAIN playerStats' \ DOMAIN playerStats :
                /\ playerStats'[s].gamesPlayed = 0
                /\ playerStats'[s].red.wins = 0
                /\ playerStats'[s].yellow.wins = 0]_vars

\* C10 happens: a socket has just joined a session of a series that has a
\* game counted, and the count is still there.
C10_Witness ==
    /\ sent # <<>>
    /\ sent[1].type = "gameJoined"
    /\ \E g \in DOMAIN games :
          /\ games[g].winner \in Colors
          /\ Has(playerStats, games[g].originalGameId)
          /\ playerStats[games[g].originalGameId].gamesPlayed = 1

\* This step announced the rematch session n.
RematchStarted(n) ==
    sent' # <<>> /\ sent'[1] = Msg("rematchStarted", ToRoom(n), "")

\* C11: a step that starts a rematch takes a session S that has a pending
\* rematch out of the registry and out of the pending table and puts in a
\* new session with S's series id and seats, an empty board, red to move, no
\* winner, status playing and game number gamesPlayed + 1 of the series as
\* it is at that step; no other session comes or goes.
C11_RematchCreatesSession ==
    [][\A n \in GameIds :
          RematchStarted(n) =>
              \E S \in DOMAIN games :
                  /\ HasPending(pendingRematches, S)
                  /\ ~HasPending(pendingRematches', S)
                  /\ DOMAIN games' = (DOMAIN games \ {S}) \cup {n}
                  /\ n \notin DOMAIN games
                  /\ games'[n] =
                        [board |-> emptyBoard,
                         currentPlayer |-> "red",
                         red |-> games[S].red,
                         yellow |-> games[S].yellow,
                         winner |-> Null,
                         winningCells |-> <<>>,
                         status |-> "playing",
                         moves |-> 0,
                         originalGameId |-> games[S].originalGameId,
                         gameNumber |->
                             playerStats[games[S].originalGameId].gamesPlayed + 1]]_vars

\* C11 happens: a rematch has just started as game 2 of a series that has
\* one game counted.
C11_Witness ==
    /\ sent # <<>>
    /\ sent[1].type = "rematchStarted"
    /\ \E n \in DOMAIN games :
          /\ games[n].gameNumber = 2
          /\ games[n].originalGameId # n
          /\ playerStats[games[n].originalGameId].gamesPlayed = 1

\* C12: an acceptRematch of connection c for session g starts a rematch only
\* when the pending table has an entry for g whose opponent is c; any other
\* acceptRematch is answered with an error and leaves the registry, the
\* pending table, the stats and the ids handed out as they were.
C12_OnlyOpponentAccepts ==
    [][(sent' # <<>> /\ sent'[1].type \in {"errorMsg", "rematchStarted"}) =>
          \A c \in Conns, g \in GameIds :
              AcceptRematch(c, g) =>
                  IF /\ HasPending(pendingRematches, g)
                     /\ GetPending(pendingRematches, g).opponent = c
                  THEN sent'[1].type = "errorMsg" =>
                          /\ games' = games
                          /\ pendingRematches' = pendingRematches
                  ELSE /\ sent'[1].type = "errorMsg"
                       /\ games' = games
                       /\ pendingRematches' = pendingRematches
                       /\ playerStats' = playerStats
                       /\ issued' = issued]_vars

\* C12 happens: an acceptRematch has just been turned down while the
\* session's rematch is pending, as the requester's is.
C12_Witness ==
    /\ sent = <<ErrorMsg("Invalid rematch acceptance.")>>
    /\ \E i \in 1..Len(pendingRematches) :
          /\ Has(games, pendingRematches[i].gameId)
          /\ pendingRematches[i].requester # pendingRematches[i].opponent

\* The seat of the colour.
Seat(game, color) == IF color = "red" THEN game.red ELSE game.yellow

\* C13: when connection c, holding the seat of colour X in a playing
\* session g, sends leaveGame(g) or disconnects, then after the step the
\* seat is empty, no seat of g is c's, the status is abandoned, the other
\* seat is taken and its colour is the winner, that seat's connection is
\* sent opponentLeft, g is still in the registry and its removal is
\* scheduled GraceDelay ms on.
C13_LeaveAbandons ==
    [][\A c \in Conns, g \in DOMAIN games, X \in Colors :
          (/\ games[g].status = "playing"
           /\ Seat(games[g], X) = c
           /\ (LeaveGame(c, g) \/ Disconnect(c)))
          => /\ Has(games', g)
             /\ Seat(games'[g], X) = NoConn
             /\ Seat(games'[g], Opposite(X)) \notin {c, NoConn}
             /\ games'[g].status = "abandoned"
             /\ games'[g].winner = Opposite(X)
             /\ \E i \in 1..Len(sent') :
                   sent'[i] = Msg("opponentLeft",
                                  ToSocket(Seat(games'[g], Opposite(X))), "")
             /\ \E i \in 1..Len(timers') :
                   timers'[i] = DeleteTimer(g) /\ Delay(timers'[i]) = GraceDelay]_vars

\* C14: a leaveGame(g) of a connection that holds neither seat of g leaves
\* g as it is, keeps g's pending rematch and schedules nothing.
C14_StrangerLeaveNoEffect ==
    [][\A c \in Conns, g \in DOMAIN games :
          (/\ games[g].red # c
           /\ games[g].yellow # c
           /\ LeaveGame(c, g))
          => /\ games' = games
             /\ pendingRematches' = pendingRematches
             /\ timers' = timers]_vars

\* The last event handled was a requestRematch that wrote an entry.
Requesting == sent # <<>> /\ sent[1].type = "rematchRequested"

\* No entry has been found older than RematchExpiry by a run of the sweep
\* and kept.
TicksBounded ==
    \A i \in 1..Len(pendingRematches) :
        pendingRematches[i].ticks * SweepEvery <= RematchExpiry

\* C15: a pending rematch does not stay: from any state in which session g
\* has one, a state follows in which it has none or has just been requested
\* again, the sweep alone seeing to it; and an entry that a run of the sweep
\* finds older than RematchExpiry is gone after that run.
C15_PendingExpires ==
    /\ []TicksBounded
    /\ \A g \in GameIds :
          (HasPending(pendingRematches, g) /\ ~Requesting)
              ~> (\/ ~HasPending(pendingRematches, g)
                  \/ Requesting /\ GetPending(pendingRematches, g).ticks = 0)

\* C15 happens: an entry has been through two runs of the sweep, is
\* RematchExpiry ms old at most, and the next run drops it.
C15_Witness ==
    \E i \in 1..Len(pendingRematches) :
        pendingRematches[i].ticks * SweepEvery = RematchExpiry

\* C16: a timeout that runs when its session is no longer in the registry
\* does nothing: it emits nothing and changes no table.
C16_TimersRecheck ==
    [][\A i \in 1..Len(timers) :
          (~Has(games, timers[i].gameId) /\ FireTimer(i))
          => /\ sent' = <<>>
             /\ games' = games
             /\ playerStats' = playerStats
             /\ pendingRematches' = pendingRematches]_vars

\* C17: a session whose status is playing has both its red seat and its
\* yellow seat occupied.
C17_PlayingHasBothSeats ==
    \A g \in GameIds :
        (Has(games, g) /\ games[g].status = "playing")
        => /\ Seat(games[g], "red") # NoConn
           /\ Seat(games[g], "yellow") # NoConn

\* C18: every pending rematch is keyed by a session that is in the registry
\* and whose status is finished.
C18_PendingOnFinished ==
    \A i \in 1..Len(pendingRematches) :
        /\ Has(games, pendingRematches[i].gameId)
        /\ games[pendingRematches[i].gameId].status = "finished"

SeatsOf(c) ==
    {<<g, color>> \in GameIds \X {"red", "yellow"} :
        Has(games, g) /\ Seat(games[g], color) = c}

\* C19: a connection occupies at most one seat over all sessions of the
\* registry, so never two sessions and never both seats of one session.
C19_OneSeatPerConnection ==
    \A c \in Conns : Cardinality(SeatsOf(c)) <= 1

\* C20: an accepted move is sent by the connection seated as the color it
\* places.
C20_MoveBySeatedColor ==
    [][\A g \in GameIds : \A X \in {"red", "yellow"} :
          AcceptedMove(g, X)
          => \A c \in Conns : \A col \in 0..MaxCol :
                 MakeMove(c, g, col, X) => Seat(games[g], X) = c]_vars

====
